---- MODULE Spec2Model ----
(***************************************************************************)
(* Model of the upload-and-poll workflow of the Extract Orders page        *)
(* (src/app.py, show_extract_orders_page) and of make_api_request.         *)
(*                                                                         *)
(* One run of the "Process & Extract Orders" button handler is modelled    *)
(* as a sequential process whose steps are cut at its suspension points:   *)
(* the upload call, the process trigger call, each time.sleep, each status *)
(* query (with the handling of its response), the processed-files lookup,  *)
(* and the check that follows the loop.  The backend and the network are   *)
(* the environment: every call draws its result nondeterministically.      *)
(*                                                                         *)
(* Before the handler runs, the script runs of main() that change the      *)
(* session (page load with session restore, login, logout) are modelled    *)
(* as one action each; the handler is reachable only from a run in which   *)
(* main() finds is_authenticated true.                                     *)
(***************************************************************************)
EXTENDS Integers, Sequences, FiniteSets, TLC

VARIABLES
    pc,               \* position of the handler
    upload_response,  \* local upload_response (None before the call)
    process_response, \* local process_response (None before the call)
    poll_count,       \* local poll_count
    queries,          \* number of status queries issued (history)
    sleeps,           \* number of time.sleep(15) suspensions (history)
    progress,         \* local progress, scaled; 0 before its first assignment
    progress_bar,     \* last value given to progress_bar.progress, scaled
    trace_len,        \* number of progress_bar.progress calls in the loop
    obs_attempt,      \* poll_count of the last min(...) progress update
    status_text,      \* content of the status_text placeholder
    page_error,       \* st.error message of the two else branches
    outcomes,         \* terminal outcomes produced, in order (history)
    all_transient,    \* every signal-free query so far gave None (history)
    all_non200,       \* ... was a response with a code other than 200
    all_nonterminal,  \* ... was a 200 response with neither signal
    terminal_at,      \* attempt whose response carried a signal, 0 if none
    terminal_body,    \* body of that response
    lookup_result,    \* what the processed-files lookup led to
    trigger_calls,    \* number of process trigger calls sent (history)
    cancel_requested, \* the caller has asked for cancellation
    session,          \* st.session_state keys and the token of st.query_params
    unauthorized,     \* a workflow request went out without the
                      \* Authorization header (history)
    api,              \* one call of make_api_request taken on its own: its
                      \* arguments and, once it has returned, its effects
    last_run          \* the last script run that touched the session: what
                      \* it was, whether its last init_session_state called
                      \* validate_token, and whether the user has logged
                      \* out and not logged in since (history)

vars == << pc, upload_response, process_response, poll_count, queries, sleeps,
           progress, progress_bar, trace_len, obs_attempt, status_text, page_error,
           outcomes, all_transient, all_non200, all_nonterminal,
           terminal_at,
           terminal_body, lookup_result, trigger_calls, cancel_requested,
           session, unauthorized, api, last_run >>

----------------------------------------------------------------------------
(* Program constants                                                        *)

\* max_polls = 60
max_polls == 60

\* the 0.90 of min(poll_count / max_polls, 0.90), in hundredths
progress_cap == 90

\* the 4 of poll_count % 4
classify_every == 4

\* Progress values are fractions; a fraction p is represented by the
\* integer p * Scale, which is exact for k / max_polls and for n / 100.
Scale == 100 * max_polls

\* progress_bar.progress(1.0)
FullProgress == Scale

Min(a, b) == IF a <= b THEN a ELSE b

\* min(poll_count / max_polls, 0.90)
Progress_uncapped(k) == k * 100
Progress(k) == Min(k * 100, progress_cap * max_polls)

----------------------------------------------------------------------------
(* The network and make_api_request                                         *)

\* What the HTTP call does: raise, or return a response with a status code
\* and a body.  Body kinds per endpoint are listed below.
Exceptions == {"ConnectionError", "Timeout", "Exception"}

Raise(e) == [exc |-> e, code |-> 0, body |-> "none"]
Reply(c, b) == [exc |-> "none", code |-> c, body |-> b]

None == [exc |-> "none", code |-> 0, body |-> "none"]

StatusCodes == {200, 201, 404, 500}

UploadBodies == {"ok", "nojson", "nofield"}
ProcessBodies == {"ok", "nojson"}
StatusBodies == {"pending", "processed", "error", "processed_error", "nojson"}
LookupBodies == {"match", "nomatch", "empty", "nojson", "badrecord"}

Net(bodies) == {Raise(e) : e \in Exceptions}
                  \cup {Reply(c, b) : c \in StatusCodes, b \in bodies}

\* make_api_request: the value returned to the caller.  Every exception of
\* the HTTP call is caught and None is returned; a method other than GET or
\* POST falls through the try block and None is returned as well.
make_api_request_timeoutEscapes(method, net) ==
    IF method \notin {"GET", "POST"} THEN None
    ELSE IF net.exc \in {"ConnectionError", "Exception"} THEN None
    ELSE net
make_api_request(method, net) ==
    IF method \notin {"GET", "POST"} THEN None
    ELSE IF net.exc # "none" THEN None
    ELSE net

\* make_api_request: whether an HTTP request is issued at all
RequestIssued(method) == method \in {"GET", "POST"}

\* make_api_request: the st.error message of the except clauses
ErrorMessage(method, net) ==
    IF ~ RequestIssued(method) THEN "none"
    ELSE CASE net.exc = "ConnectionError" -> "Cannot connect to the backend API"
           [] net.exc = "Timeout"         -> "Request timed out"
           [] net.exc = "Exception"       -> "API request failed"
           [] OTHER                       -> "none"

\* Truth value of a make_api_request result in `if response and ...`:
\* None is false, and a Response is true exactly when its code is below 400.
Truthy(r) == r # None /\ r.code < 400

\* status_data.get('is_processed') / status_data.get('processing_error')
is_processed(body) == body \in {"processed", "processed_error"}
processing_error(body) == body \in {"error", "processed_error"}

----------------------------------------------------------------------------
(* Session state                                                            *)

\* The keys of st.session_state the application uses, each "absent" or
\* with its value, and the token parameter of the URL (st.query_params).
\* Token and user name values are abstracted to one value each.
EmptySession ==
    [ access_token |-> "absent", user_name |-> "absent",
      is_authenticated |-> "absent", session_checked |-> "absent",
      url_token |-> "absent" ]

\* validate_token: the user info of a 200 response, which may be an empty
\* object, or None (no token, other status code, exception).
ValidateResults == {"user_info", "empty", "None"}

\* get_stored_token
get_stored_token(s) == s.url_token

\* clear_session: delete the four keys and clear the URL parameters
clear_session_keepsFlag(s) ==
    [ s EXCEPT !.access_token = "absent", !.user_name = "absent",
               !.session_checked = "absent", !.url_token = "absent" ]
clear_session_keepsUrl(s) ==
    [ s EXCEPT !.access_token = "absent", !.user_name = "absent",
               !.is_authenticated = "absent", !.session_checked = "absent" ]
clear_session(s) ==
    [ s EXCEPT !.access_token = "absent", !.user_name = "absent",
               !.is_authenticated = "absent", !.session_checked = "absent",
               !.url_token = "absent" ]

\* init_session_state, with v the result validate_token gives if called
init_session_state(s, v) ==
    LET checked ==
          IF s.session_checked = "absent"
          THEN LET s1 == [ s EXCEPT !.session_checked = "true" ] IN
               IF get_stored_token(s1) # "absent"
                    /\ s1.is_authenticated # "true"
               THEN IF v = "user_info"
                    THEN [ s1 EXCEPT !.access_token = get_stored_token(s1),
                                     !.user_name = "present",
                                     !.is_authenticated = "true" ]
                    ELSE clear_session(s1)
               ELSE s1
          ELSE s
    IN IF checked.is_authenticated = "absent"
       THEN [ checked EXCEPT !.is_authenticated = "false" ]
       ELSE checked

\* init_session_state calls validate_token: the session has not been
\* checked, the URL holds a token and the session is not authenticated
CallsValidate(s) ==
    /\ s.session_checked = "absent"
    /\ get_stored_token(s) # "absent"
    /\ s.is_authenticated # "true"

\* the request headers make_api_request builds
Headers(s) ==
    IF s.access_token # "absent" THEN {"Authorization"} ELSE { }

\* main: the dashboard, and with it the Extract Orders page, is shown only
\* when is_authenticated is true; otherwise the login page is shown
ShowsDashboard(s) == s.is_authenticated = "true"

LoginBodies == {"ok", "nojson", "notoken", "nouser"}

\* The login form handler after a response r of the login call.
LoginResult_flagFirst(s, r) ==
    IF Truthy(r) /\ r.code = 200
    THEN CASE r.body = "ok" ->
                [ s EXCEPT !.access_token = "tok", !.user_name = "present",
                           !.is_authenticated = "true", !.url_token = "tok" ]
           [] r.body = "nouser" ->
                [ s EXCEPT !.access_token = "tok",
                           !.is_authenticated = "true" ]
           [] OTHER -> s
    ELSE s
LoginResult(s, r) ==
    IF Truthy(r) /\ r.code = 200
    THEN CASE r.body = "ok" ->
                [ s EXCEPT !.access_token = "tok", !.user_name = "present",
                           !.is_authenticated = "true", !.url_token = "tok" ]
           [] r.body = "nouser" -> [ s EXCEPT !.access_token = "tok" ]
           [] OTHER -> s
    ELSE s

----------------------------------------------------------------------------
(* The conditions and the per-response effects of the handler               *)

\* if upload_response and upload_response.status_code == 201
UploadOk_anySuccess(r) == Truthy(r)
UploadOk(r) == Truthy(r) /\ r.code = 201

\* if process_response and process_response.status_code == 200
ProcessOk(r) == Truthy(r) /\ r.code = 200

\* if status_response and status_response.status_code == 200
StatusOk_anySuccess(r) == Truthy(r)
StatusOk(r) == Truthy(r) /\ r.code = 200

\* while poll_count < max_polls
LoopCondition_offByOne(k) == k < max_polls - 1
LoopCondition_oneMore(k) == k <= max_polls
LoopCondition(k) == k < max_polls

\* if poll_count >= max_polls, after the loop
TimedOutCondition(k) == k >= max_polls

\* Where the handler goes after one status response: out of the loop by one
\* of the two breaks, back to the loop test, or out by an exception of
\* status_response.json().
QueryPc_noBreakOnComplete(r) ==
    IF StatusOk(r)
    THEN IF r.body = "nojson" THEN "crashed"
         ELSE IF is_processed(r.body) THEN "loop"
         ELSE IF processing_error(r.body) THEN "after"
         ELSE "loop"
    ELSE "loop"
QueryPc_noBreakOnError(r) ==
    IF StatusOk(r)
    THEN IF r.body = "nojson" THEN "crashed"
         ELSE IF is_processed(r.body) THEN "lookup"
         ELSE "loop"
    ELSE "loop"
QueryPc_breakOnNone(r) ==
    IF StatusOk(r)
    THEN IF r.body = "nojson" THEN "crashed"
         ELSE IF is_processed(r.body) THEN "lookup"
         ELSE IF processing_error(r.body) THEN "after"
         ELSE "loop"
    ELSE IF r = None THEN "after" ELSE "loop"
QueryPc(r) ==
    IF StatusOk(r)
    THEN IF r.body = "nojson" THEN "crashed"
         ELSE IF is_processed(r.body) THEN "lookup"
         ELSE IF processing_error(r.body) THEN "after"
         ELSE "loop"
    ELSE "loop"

\* The values given to progress_bar.progress while one status response is
\* handled on attempt k, in order.
ProgressUpdates_onEveryAttempt(r, k) ==
    IF StatusOk(r) /\ r.body # "nojson" /\ is_processed(r.body)
    THEN << Progress(k), FullProgress >>
    ELSE << Progress(k) >>
ProgressUpdates_checkFirst(r, k) ==
    IF StatusOk(r) /\ r.body # "nojson"
    THEN IF is_processed(r.body) THEN << FullProgress >>
         ELSE IF processing_error(r.body) THEN << >>
         ELSE << Progress(k) >>
    ELSE << >>
ProgressUpdates_fullOnError(r, k) ==
    IF StatusOk(r) /\ r.body # "nojson"
    THEN IF is_processed(r.body) \/ processing_error(r.body)
         THEN << Progress(k), FullProgress >>
         ELSE << Progress(k) >>
    ELSE << >>
ProgressUpdates(r, k) ==
    IF StatusOk(r) /\ r.body # "nojson"
    THEN IF is_processed(r.body) THEN << Progress(k), FullProgress >>
         ELSE << Progress(k) >>
    ELSE << >>

\* The terminal outcome one status response produces inside the loop.
LoopOutcome_errorFirst(r) ==
    IF StatusOk(r) /\ r.body # "nojson"
    THEN IF processing_error(r.body) THEN << "Failed" >>
         ELSE IF is_processed(r.body) THEN << "Completed" >>
         ELSE << >>
    ELSE << >>
LoopOutcome(r) ==
    IF StatusOk(r) /\ r.body # "nojson"
    THEN IF is_processed(r.body) THEN << "Completed" >>
         ELSE IF processing_error(r.body) THEN << "Failed" >>
         ELSE << >>
    ELSE << >>

\* The status_text placeholder after one status response on attempt k:
\* the branch's message, overwritten every fourth attempt by the tail of
\* the iteration unless the iteration broke out of the loop.
StatusText(r, k, old) ==
    IF StatusOk(r) /\ r.body # "nojson"
    THEN IF is_processed(r.body) THEN "Processing complete"
         ELSE IF processing_error(r.body) THEN "Processing failed"
         ELSE IF k % classify_every = 0 THEN "AI is classifying"
         ELSE "Processing step"
    ELSE IF StatusOk(r) THEN old
    ELSE IF k % classify_every = 0 THEN "AI is classifying"
    ELSE old

Last(seq) == seq[Len(seq)]

\* What the processed-files lookup after completion leads to: the summary
\* of the matching record, no summary, or an exception of .json() or of
\* latest_file['total_messages'].
LookupResult(r) ==
    IF r = None THEN "request failed"
    ELSE IF ~ (Truthy(r) /\ r.code = 200) THEN "not 200"
    ELSE CASE r.body = "match"   -> "summary"
           [] r.body = "nomatch" -> "no match"
           [] r.body = "empty"   -> "empty list"
           [] OTHER              -> "raised"

\* Where the handler goes after the lookup: to the break, unless an
\* exception was raised.
LookupPc_retryOnFailure(r) ==
    IF LookupResult(r) = "raised" THEN "crashed"
    ELSE IF LookupResult(r) = "summary" THEN "after"
    ELSE "loop"
LookupPc(r) ==
    IF LookupResult(r) = "raised" THEN "crashed" ELSE "after"

----------------------------------------------------------------------------
\* the locals and the output of the handler before it has run
WorkflowInit ==
    /\ upload_response = None
    /\ process_response = None
    /\ poll_count = 0
    /\ queries = 0
    /\ sleeps = 0
    /\ progress = 0
    /\ progress_bar = 0
    /\ trace_len = 0
    /\ obs_attempt = 0
    /\ status_text = "empty"
    /\ page_error = "none"
    /\ outcomes = << >>
    /\ all_transient = TRUE
    /\ all_non200 = TRUE
    /\ all_nonterminal = TRUE
    /\ terminal_at = 0
    /\ terminal_body = "none"
    /\ lookup_result = "none"
    /\ trigger_calls = 0
    /\ cancel_requested = FALSE
    /\ unauthorized = FALSE

NoApiCall ==
    [ phase |-> "none", method |-> "none", net |-> None, result |-> None,
      issued |-> FALSE, message |-> "none", session_before |-> EmptySession ]

Init ==
    /\ pc = "idle"
    /\ session \in { EmptySession,
                      [ EmptySession EXCEPT !.url_token = "tok" ] }
    /\ last_run = [ op |-> "none", validated |-> FALSE, logged_out |-> FALSE ]
    /\ api = NoApiCall
    /\ WorkflowInit

loopVars == << poll_count, queries, sleeps, progress, progress_bar, trace_len,
               obs_attempt, all_transient, all_non200, all_nonterminal,
               terminal_at, terminal_body, lookup_result >>

workflowVars == << upload_response, process_response, status_text,
                  page_error, outcomes, trigger_calls, cancel_requested,
                  unauthorized >>

\* A script run without a form submission: main() calls init_session_state
\* and renders the page.
PageLoad ==
    /\ pc = "idle"
    /\ \E v \in ValidateResults : session' = init_session_state(session, v)
    /\ last_run' = [ last_run EXCEPT !.op = "load",
                                     !.validated = CallsValidate(session) ]
    /\ UNCHANGED pc
    /\ UNCHANGED workflowVars
    /\ UNCHANGED loopVars
    /\ UNCHANGED api

\* A run in which the login form of a rendered page is submitted; a
\* successful login ends with st.rerun(), that is with one more run of
\* main().
Login ==
    /\ pc = "idle"
    /\ last_run.op # "none"
    /\ \E v \in ValidateResults, net \in Net(LoginBodies) :
         LET s1 == init_session_state(session, v)
             s2 == LoginResult(s1, make_api_request("POST", net))
         IN /\ ~ ShowsDashboard(s1)
            /\ session' = IF ShowsDashboard(s2)
                          THEN init_session_state(s2, "None")
                          ELSE s2
            /\ last_run' =
                 [ op |-> "login",
                   validated |-> IF ShowsDashboard(s2)
                                 THEN CallsValidate(s2)
                                 ELSE CallsValidate(session),
                   logged_out |-> last_run.logged_out
                                     /\ ~ ShowsDashboard(s2) ]
    /\ UNCHANGED pc
    /\ UNCHANGED workflowVars
    /\ UNCHANGED loopVars
    /\ UNCHANGED api

\* A run in which the Logout button of the rendered dashboard is pressed:
\* clear_session, then st.rerun(), that is one more run of main().
Logout ==
    /\ pc = "idle"
    /\ last_run.op # "none"
    /\ \E v \in ValidateResults, w \in ValidateResults :
         LET s1 == init_session_state(session, v)
             s2 == clear_session(s1)
         IN /\ ShowsDashboard(s1)
            /\ session' = init_session_state(s2, w)
            /\ last_run' = [ op |-> "logout",
                             validated |-> CallsValidate(s2),
                             logged_out |-> TRUE ]
    /\ UNCHANGED pc
    /\ UNCHANGED workflowVars
    /\ UNCHANGED loopVars
    /\ UNCHANGED api

\* A run in which the Extract Orders page is shown and the
\* "Process & Extract Orders" button of the rendered page is pressed.
StartProcess ==
    /\ pc = "idle"
    /\ last_run.op # "none"
    /\ \E v \in ValidateResults :
         LET s1 == init_session_state(session, v) IN
         /\ ShowsDashboard(s1)
         /\ session' = s1
    /\ last_run' = [ last_run EXCEPT !.op = "process",
                                     !.validated = CallsValidate(session) ]
    /\ pc' = "upload"
    /\ UNCHANGED workflowVars
    /\ UNCHANGED loopVars
    /\ UNCHANGED api

\* Upload the file; on 201 read data.id from the body.
Upload ==
    /\ pc = "upload"
    /\ \E net \in Net(UploadBodies) :
         LET r == make_api_request("POST", net) IN
         /\ upload_response' = r
         /\ IF UploadOk(r)
            THEN /\ pc' = IF r.body = "ok" THEN "trigger" ELSE "crashed"
                 /\ UNCHANGED << page_error, outcomes >>
            ELSE /\ pc' = "done"
                 /\ page_error' = "Failed to upload file"
                 /\ outcomes' = Append(outcomes, "SubmissionError")
    /\ UNCHANGED << process_response, status_text, trigger_calls,
                    cancel_requested >>
    /\ UNCHANGED loopVars
    /\ UNCHANGED session
    /\ unauthorized' =
          (unauthorized \/ "Authorization" \notin Headers(session))
    /\ UNCHANGED last_run
    /\ UNCHANGED api

\* Trigger processing; on 200 read the body and enter the polling loop.
Trigger ==
    /\ pc = "trigger"
    /\ trigger_calls' = trigger_calls + 1
    /\ \E net \in Net(ProcessBodies) :
         LET r == make_api_request("POST", net) IN
         /\ process_response' = r
         /\ IF ProcessOk(r)
            THEN /\ IF r.body = "ok"
                    THEN /\ pc' = "loop"
                         /\ status_text' = "Processing started"
                    ELSE /\ pc' = "crashed"
                         /\ UNCHANGED status_text
                 /\ UNCHANGED << page_error, outcomes >>
            ELSE /\ pc' = "done"
                 /\ page_error' = "Failed to start processing"
                 /\ outcomes' = Append(outcomes, "SubmissionError")
                 /\ UNCHANGED status_text
    /\ UNCHANGED << upload_response, cancel_requested >>
    /\ UNCHANGED loopVars
    /\ UNCHANGED session
    /\ unauthorized' =
          (unauthorized \/ "Authorization" \notin Headers(session))
    /\ UNCHANGED last_run
    /\ UNCHANGED api

\* while poll_count < max_polls: time.sleep(15); poll_count += 1
Sleep_noFirstSleep ==
    /\ pc = "loop"
    /\ LoopCondition(poll_count)
    /\ sleeps' = IF poll_count = 0 THEN sleeps ELSE sleeps + 1
    /\ poll_count' = poll_count + 1
    /\ pc' = "query"
    /\ UNCHANGED << upload_response, process_response, queries, progress,
                    progress_bar, trace_len, obs_attempt, status_text,
                    page_error, outcomes,
                    all_transient, all_non200, all_nonterminal, terminal_at,
                    terminal_body, lookup_result, trigger_calls,
                    cancel_requested >>
    /\ UNCHANGED session
    /\ UNCHANGED unauthorized
    /\ UNCHANGED last_run
    /\ UNCHANGED api
Sleep ==
    /\ pc = "loop"
    /\ LoopCondition(poll_count)
    /\ sleeps' = sleeps + 1
    /\ poll_count' = poll_count + 1
    /\ pc' = "query"
    /\ UNCHANGED << upload_response, process_response, queries, progress,
                    progress_bar, trace_len, obs_attempt, status_text,
                    page_error, outcomes,
                    all_transient, all_non200, all_nonterminal, terminal_at,
                    terminal_body, lookup_result, trigger_calls,
                    cancel_requested >>
    /\ UNCHANGED session
    /\ UNCHANGED unauthorized
    /\ UNCHANGED last_run
    /\ UNCHANGED api

\* the loop condition is false: leave the loop
LoopExit ==
    /\ pc = "loop"
    /\ ~ LoopCondition(poll_count)
    /\ pc' = "after"
    /\ UNCHANGED << upload_response, process_response, status_text,
                    page_error, outcomes, trigger_calls, cancel_requested >>
    /\ UNCHANGED loopVars
    /\ UNCHANGED session
    /\ UNCHANGED unauthorized
    /\ UNCHANGED last_run
    /\ UNCHANGED api

\* One status query and the handling of its response.
Query ==
    /\ pc = "query"
    /\ queries' = queries + 1
    /\ \E net \in Net(StatusBodies) :
         LET r == make_api_request("GET", net)
             updates == ProgressUpdates(r, poll_count)
             outcome == LoopOutcome(r)
         IN
         /\ pc' = QueryPc(r)
         /\ progress' = IF StatusOk(r) /\ r.body # "nojson"
                        THEN Progress(poll_count) ELSE progress
         /\ trace_len' = trace_len + Len(updates)
         /\ progress_bar' =
                IF updates = << >> THEN progress_bar ELSE Last(updates)
         /\ obs_attempt' =
                IF updates # << >> /\ Head(updates) = Progress(poll_count)
                THEN poll_count ELSE obs_attempt
         /\ outcomes' = outcomes \o outcome
         /\ status_text' = StatusText(r, poll_count, status_text)
         /\ IF outcome # << >>
            THEN /\ terminal_at' = poll_count
                 /\ terminal_body' = r.body
                 /\ UNCHANGED << all_transient, all_non200, all_nonterminal >>
            ELSE /\ UNCHANGED << terminal_at, terminal_body >>
                 /\ all_transient' = (all_transient /\ r = None)
                 /\ all_non200' = (all_non200 /\ r # None /\ r.code # 200)
                 /\ all_nonterminal' =
                        (all_nonterminal /\ r # None /\ r.code = 200)
    /\ UNCHANGED << upload_response, process_response, poll_count, sleeps,
                    page_error, lookup_result, trigger_calls,
                    cancel_requested >>
    /\ UNCHANGED session
    /\ unauthorized' =
          (unauthorized \/ "Authorization" \notin Headers(session))
    /\ UNCHANGED last_run
    /\ UNCHANGED api

\* After completion: fetch the processed files, show the summary of the
\* record of this chat file if there is one, then break.
Lookup ==
    /\ pc = "lookup"
    /\ \E net \in Net(LookupBodies) :
         LET r == make_api_request("GET", net) IN
         /\ pc' = LookupPc(r)
         /\ lookup_result' = LookupResult(r)
    /\ UNCHANGED << upload_response, process_response, poll_count, queries,
                    sleeps, progress, progress_bar, trace_len, obs_attempt,
                    status_text, page_error, outcomes, all_transient, all_non200,
                    all_nonterminal, terminal_at, terminal_body,
                    trigger_calls, cancel_requested >>
    /\ UNCHANGED session
    /\ unauthorized' =
          (unauthorized \/ "Authorization" \notin Headers(session))
    /\ UNCHANGED last_run
    /\ UNCHANGED api

\* if poll_count >= max_polls: status_text.warning(...)
AfterLoop ==
    /\ pc = "after"
    /\ IF TimedOutCondition(poll_count)
       THEN /\ status_text' = "Please check back later"
            /\ outcomes' = Append(outcomes, "TimedOut")
       ELSE UNCHANGED << status_text, outcomes >>
    /\ pc' = "done"
    /\ UNCHANGED << upload_response, process_response, page_error,
                    trigger_calls, cancel_requested >>
    /\ UNCHANGED loopVars
    /\ UNCHANGED session
    /\ UNCHANGED unauthorized
    /\ UNCHANGED last_run
    /\ UNCHANGED api

\* The caller asks for cancellation while the loop is running.  Nothing in
\* the handler reads the request.
RequestCancel ==
    /\ pc \in {"loop", "query"}
    /\ ~ cancel_requested
    /\ cancel_requested' = TRUE
    /\ UNCHANGED << pc, upload_response, process_response, status_text,
                    page_error, outcomes, trigger_calls >>
    /\ UNCHANGED loopVars
    /\ UNCHANGED session
    /\ UNCHANGED unauthorized
    /\ UNCHANGED last_run
    /\ UNCHANGED api

Next ==
    \/ PageLoad
    \/ Login
    \/ Logout
    \/ StartProcess
    \/ Upload
    \/ Trigger
    \/ Sleep
    \/ LoopExit
    \/ Query
    \/ Lookup
    \/ AfterLoop
    \/ RequestCancel

Spec == Init /\ [][Next]_vars

\* The steps of the handler itself.  The handler is sequential code: sleep
\* returns, and every HTTP call has a timeout, so a step that is enabled is
\* eventually taken.
HandlerStep ==
    Upload \/ Trigger \/ Sleep \/ LoopExit \/ Query \/ Lookup \/ AfterLoop

FairSpec == Spec /\ WF_vars(HandlerStep)

----------------------------------------------------------------------------
(* make_api_request on its own: one call with any method, any behaviour of  *)
(* the HTTP call and any session the application calls it in.               *)

Methods == {"GET", "POST", "PUT", "DELETE"}

\* the session after a first run, then with the token of a login whose
\* response lacked the user name, then after a successful login
LoggedOutSession == init_session_state(EmptySession, "None")
HalfLoggedInSession == LoginResult(LoggedOutSession, Reply(200, "nouser"))
LoggedInSession == LoginResult(LoggedOutSession, Reply(200, "ok"))

ApiSessions == { LoggedOutSession, HalfLoggedInSession, LoggedInSession }

ApiInit ==
    /\ pc = "api"
    /\ session \in ApiSessions
    /\ last_run = [ op |-> "load", validated |-> FALSE, logged_out |-> FALSE ]
    /\ \E m \in Methods, net \in Net(ProcessBodies) :
          api = [ NoApiCall EXCEPT !.phase = "call", !.method = m,
                                   !.net = net, !.session_before = session ]
    /\ WorkflowInit

\* the call: make_api_request reads the session state and writes none of it
ApiCall ==
    /\ pc = "api"
    /\ api.phase = "call"
    /\ api' = [ api EXCEPT
                  !.phase = "returned",
                  !.result = make_api_request(api.method, api.net),
                  !.issued = RequestIssued(api.method),
                  !.message = ErrorMessage(api.method, api.net) ]
    /\ UNCHANGED << pc, session, last_run >>
    /\ UNCHANGED workflowVars
    /\ UNCHANGED loopVars

ApiNext == ApiCall

ApiSpec == ApiInit /\ [][ApiNext]_vars

----------------------------------------------------------------------------
(* Properties                                                               *)

Range(seq) == { seq[i] : i \in 1..Len(seq) }

\* the status response of attempt k carried the completion signal
CompletedAt(k) == terminal_at = k /\ is_processed(terminal_body)

\* the status response of attempt k carried a processing error and no
\* completion signal
FailedAt(k) ==
    terminal_at = k /\ processing_error(terminal_body)
                    /\ ~ is_processed(terminal_body)

\* C1: a completion signal found on the final allowed attempt yields the
\* outcome Completed and not TimedOut: the timed-out outcome is never
\* produced after it, and the status shown at the end is the completion.
C1_CompletionOnFinalAttempt ==
    CompletedAt(max_polls) =>
        /\ "TimedOut" \notin Range(outcomes)
        /\ (pc = "done" => status_text = "Processing complete")

\* C2: every run of the workflow produces exactly one terminal outcome:
\* never two, and exactly one when the run has ended.
C2_ExactlyOneOutcome ==
    /\ Len(outcomes) <= 1
    /\ (pc = "done" => Len(outcomes) = 1)

\* C3: when every status query returns a non-terminal state, the loop
\* performs exactly max_polls status queries and then ends with TimedOut.
C3_NonTerminalRunTimesOut ==
    (queries > 0 /\ all_nonterminal /\ terminal_at = 0
        /\ pc \in {"after", "done"})
    => /\ queries = max_polls
       /\ poll_count = max_polls
       /\ (pc = "done" => /\ outcomes = << "TimedOut" >>
                          /\ status_text = "Please check back later")

C3_Witness ==
    /\ pc = "done"
    /\ all_nonterminal
    /\ terminal_at = 0
    /\ queries = max_polls
    /\ outcomes = << "TimedOut" >>

\* C4: when the completion signal first arrives on attempt k, the loop is
\* left through the Completed branch after exactly k status queries and no
\* further query is issued; for k below max_polls Completed is the only
\* outcome of the run.
C4_CompletionExitsEarly ==
    \A k \in 1..max_polls :
        CompletedAt(k) =>
            /\ queries = k
            /\ pc \notin {"loop", "query"}
            /\ outcomes # << >>
            /\ Head(outcomes) = "Completed"
            /\ (pc = "done" /\ k < max_polls =>
                    /\ outcomes = << "Completed" >>
                    /\ status_text = "Processing complete")

C4_Witness ==
    /\ pc = "done"
    /\ CompletedAt(7)
    /\ queries = 7
    /\ outcomes = << "Completed" >>

\* C5: a processing error returned on the first attempt ends the loop with
\* outcome Failed after exactly one status query.
C5_ErrorOnFirstAttempt ==
    FailedAt(1) =>
        /\ queries = 1
        /\ pc \in {"after", "done"}
        /\ outcomes = << "Failed" >>
        /\ status_text = "Processing failed"

C5_Witness ==
    /\ pc = "done"
    /\ FailedAt(1)
    /\ queries = 1
    /\ outcomes = << "Failed" >>

\* C6: a cancellation requested before the top of a loop iteration aborts
\* the loop there: the next status query is not issued and the run ends
\* with a Cancelled outcome.
C6_CancelAtLoopTop ==
    [][ (cancel_requested /\ pc = "loop") =>
            (pc' # "query" /\ queries' = queries
                /\ "Cancelled" \in Range(outcomes')) ]_vars

\* C7: polling never begins after a failed submission: a status query is
\* issued only after the upload returned 201 and the trigger returned 200,
\* the trigger is sent only after the upload returned 201, and a failed
\* upload or trigger ends the run with a submission error and no polling.
C7_NoPollingAfterFailedSubmission ==
    /\ (queries > 0 \/ sleeps > 0
            \/ pc \in {"loop", "query", "lookup", "after"})
          => (upload_response # None /\ upload_response.code = 201
                /\ process_response # None /\ process_response.code = 200)
    /\ (trigger_calls > 0 \/ pc = "trigger")
          => (upload_response # None /\ upload_response.code = 201)
    /\ (pc = "done" /\ (upload_response = None \/ upload_response.code # 201
                          \/ process_response = None
                          \/ process_response.code # 200))
          => (outcomes = << "SubmissionError" >> /\ page_error # "none"
                /\ queries = 0 /\ sleeps = 0 /\ poll_count = 0)

C7_Witness ==
    /\ pc = "done"
    /\ trigger_calls = 1
    /\ process_response = None
    /\ queries = 0
    /\ outcomes = << "SubmissionError" >>

\* C8: a status query for which make_api_request returns None counts as one
\* attempt and the loop goes on; when all queries fail this way the run ends
\* with TimedOut after exactly max_polls attempts.
C8_TransientFailureCounts ==
    (queries > 0 /\ all_transient /\ terminal_at = 0 /\ pc # "crashed") =>
        /\ (pc # "query" => poll_count = queries)
        /\ (pc \in {"after", "done"} => queries = max_polls)
        /\ (pc \in {"loop", "query", "after"} => outcomes = << >>)
        /\ (pc = "done" => outcomes = << "TimedOut" >>)

C8_Witness ==
    /\ pc = "done"
    /\ all_transient
    /\ terminal_at = 0
    /\ queries = max_polls
    /\ outcomes = << "TimedOut" >>

\* the scenario of C9: the queries of attempts 1 to 3 all failed and the
\* response of attempt 4 carried the completion signal
ThreeFailuresThenCompletion == CompletedAt(4) /\ all_transient

C11_ProgressValue ==
    \A k \in 1..max_polls :
        obs_attempt = k =>
            /\ IF 10 * k <= 9 * max_polls
               THEN progress * max_polls = k * Scale
               ELSE progress * 10 = 9 * Scale
            /\ (k \in {54, 55} => progress * 10 = 9 * Scale)
            /\ progress_bar \in {progress, FullProgress}

C11_Witness ==
    /\ obs_attempt = 55
    /\ progress * 10 = 9 * Scale
    /\ progress_bar = progress

\* C12: the reported progress is at most the cap of 0.90 unless a status
\* response with is_processed true has been received in this run; 1.0 is
\* reported only after such a response.
C12_ProgressCap ==
    /\ progress * 100 <= progress_cap * Scale
    /\ (~ is_processed(terminal_body))
          => progress_bar * 100 <= progress_cap * Scale
    /\ progress_bar = FullProgress
          => (terminal_at > 0 /\ is_processed(terminal_body)
                /\ "Completed" \in Range(outcomes))

C12_Witness ==
    /\ pc = "done"
    /\ terminal_at = 0
    /\ outcomes = << "TimedOut" >>
    /\ progress_bar * 100 = progress_cap * Scale

\* C13: once a status response has carried a completion or a processing
\* error, no further status query is issued, the loop does not sleep again
\* and no further progress observation is produced.
C13_NoPollingAfterTerminal ==
    [][ terminal_at > 0 =>
            /\ queries' = queries
            /\ sleeps' = sleeps
            /\ trace_len' = trace_len
            /\ progress_bar' = progress_bar
            /\ terminal_at' = terminal_at ]_vars

C13_Witness ==
    /\ pc = "done"
    /\ CompletedAt(5)
    /\ lookup_result = "summary"
    /\ queries = 5

\* C14: when the backend reports a processing error on attempt k, for every
\* k up to and including max_polls, the outcome finally surfaced is Failed
\* and not TimedOut; TimedOut is produced only when no attempt received a
\* terminal signal.
C14_FailedIsSurfaced ==
    /\ \A k \in 1..max_polls :
          (FailedAt(k) /\ pc = "done") =>
              (status_text = "Processing failed" /\ outcomes = << "Failed" >>)
    /\ (processing_error(terminal_body) /\ ~ is_processed(terminal_body))
          => "TimedOut" \notin Range(outcomes)

\* C15: the workflow never ends in an uncaught exception; a malformed
\* response body ends it in a returned outcome.
C15_NoUncaughtFault == pc # "crashed"

\* C16: the polling loop always terminates: it issues at most max_polls
\* status queries, and once entered it is eventually left, with an outcome
\* when the handler runs to its end.
C16_LoopTerminates ==
    /\ [](queries <= max_polls /\ poll_count <= max_polls)
    /\ []((pc = "done" /\ queries > 0) => outcomes # << >>)
    /\ (pc = "loop" ~> pc \in {"done", "crashed"})

C16_Witness ==
    /\ pc = "done"
    /\ queries = max_polls
    /\ ~ all_transient /\ ~ all_non200 /\ ~ all_nonterminal
    /\ outcomes # << >>

\* C17: every request of the workflow carries the Authorization header:
\* while the handler runs, is_authenticated is true and access_token is in
\* the session state.
C17_RequestsCarryCredential ==
    /\ ~ unauthorized
    /\ (pc # "idle" => /\ session.is_authenticated = "true"
                       /\ session.access_token # "absent"
                       /\ Headers(session) = {"Authorization"})

C17_Witness ==
    /\ pc = "done"
    /\ lookup_result = "no match"
    /\ queries = 2
    /\ ~ unauthorized

\* C18: every status query is preceded by one sleep, the first one
\* included: sleeps and queries alternate, starting with a sleep.
C18_SleepBeforeEveryQuery ==
    /\ sleeps = poll_count
    /\ (pc = "query" => sleeps = queries + 1)
    /\ (pc # "query" => sleeps = queries)

C18_Witness ==
    /\ pc = "query"
    /\ queries = 0
    /\ sleeps = 1

\* C19: after a completion signal the workflow is Completed (progress 1.0,
\* success status) and polls no more whatever the processed-files lookup
\* gives: a failed request, a non-200 response, an empty list or a list
\* without a matching record only suppresses the summary.
C19_LookupDoesNotChangeOutcome ==
    lookup_result \in {"request failed", "not 200", "empty list",
                       "no match", "summary"} =>
        /\ terminal_at > 0 /\ is_processed(terminal_body)
        /\ queries = terminal_at
        /\ pc \in {"after", "done"}
        /\ progress_bar = FullProgress
        /\ Head(outcomes) = "Completed"
        /\ "Failed" \notin Range(outcomes)
        /\ (terminal_at < max_polls =>
                /\ outcomes = << "Completed" >>
                /\ status_text = "Processing complete")

C19_Witness ==
    /\ pc = "done"
    /\ lookup_result = "request failed"
    /\ outcomes = << "Completed" >>
    /\ progress_bar = FullProgress

\* C20: a status response with a code other than 200 is treated like a
\* failed query: the attempt is counted, no progress is emitted, the loop
\* does not end early with Failed, and a run of such responses only ends
\* with TimedOut after max_polls attempts.
C20_Non200IsInconclusive ==
    (queries > 0 /\ all_non200 /\ terminal_at = 0) =>
        /\ trace_len = 0 /\ obs_attempt = 0 /\ progress_bar = 0
        /\ (pc # "query" => poll_count = queries)
        /\ pc \in {"loop", "query", "after", "done"}
        /\ (pc \in {"after", "done"} => queries = max_polls)
        /\ (pc # "done" => outcomes = << >>)
        /\ (pc = "done" => outcomes = << "TimedOut" >>)

C20_Witness ==
    /\ pc = "done"
    /\ all_non200
    /\ terminal_at = 0
    /\ queries = max_polls
    /\ outcomes = << "TimedOut" >>

\* C21: when one status response carries both is_processed true and a
\* processing error, the completion check wins: Completed is produced, the
\* handler goes on to the processed-files lookup and Failed is not
\* produced.
C21_CompletionWinsOverError ==
    terminal_body = "processed_error" =>
        /\ terminal_at > 0
        /\ outcomes # << >>
        /\ Head(outcomes) = "Completed"
        /\ "Failed" \notin Range(outcomes)
        /\ progress_bar = FullProgress
        /\ (pc \in {"after", "done"} => lookup_result # "none")
        /\ (pc = "lookup" => status_text = "Processing complete")

C21_Witness ==
    /\ pc = "done"
    /\ terminal_body = "processed_error"
    /\ outcomes = << "Completed" >>
    /\ status_text = "Processing complete"

\* C22: once init_session_state has run, after any sequence of session
\* restore, login, failed login and logout, is_authenticated is defined,
\* and is_authenticated true implies that access_token and user_name are
\* in the session state.
C22_AuthenticatedHasToken ==
    last_run.op # "none" =>
        /\ session.is_authenticated \in {"true", "false"}
        /\ (session.is_authenticated = "true" =>
                /\ session.access_token # "absent"
                /\ session.user_name # "absent")

\* a session authenticated by a login, with no token in the URL before it
C22_Witness ==
    /\ last_run.op = "login"
    /\ pc = "idle"
    /\ session.is_authenticated = "true"
    /\ session.access_token # "absent"
    /\ session.user_name # "absent"

\* C23: after logout access_token, user_name and the URL token are gone
\* and session_checked has been reset; the run that follows finds no stored
\* token, calls no token validation and sets is_authenticated to false, so
\* the login page is shown; and while the user has not logged in again the
\* session is not restored.
C23_LogoutClearsSession ==
    /\ last_run.op = "logout" =>
          /\ session.access_token = "absent"
          /\ session.user_name = "absent"
          /\ get_stored_token(session) = "absent"
          /\ session.session_checked = "true"
          /\ ~ last_run.validated
          /\ session.is_authenticated = "false"
          /\ ~ ShowsDashboard(session)
          /\ pc = "idle"
    /\ last_run.logged_out =>
          /\ ~ ShowsDashboard(session)
          /\ get_stored_token(session) = "absent"
          /\ ~ last_run.validated
          /\ pc = "idle"

\* a page load after a logout of a session that had been restored from the
\* URL token
C23_Witness ==
    /\ last_run.op = "load"
    /\ last_run.logged_out
    /\ session.is_authenticated = "false"
    /\ session.access_token = "absent"

\* C24: make_api_request never propagates an exception to its caller: when
\* the HTTP call raises a connection error, a timeout or any other
\* exception it returns None, for a method other than GET or POST it
\* returns None without issuing a request, and the session state is left
\* as it was in every case.
C24_NoExceptionPropagates ==
    api.phase = "returned" =>
        /\ api.result.exc = "none"
        /\ (api.method \in {"GET", "POST"} /\ api.net.exc # "none")
              => (api.result = None /\ api.issued /\ api.message # "none")
        /\ (api.method \in {"GET", "POST"} /\ api.net.exc = "none")
              => (api.result = api.net /\ api.issued /\ api.message = "none")
        /\ (api.method \notin {"GET", "POST"})
              => (api.result = None /\ ~ api.issued /\ api.message = "none")
        /\ session = api.session_before

C24_Witness ==
    /\ api.phase = "returned"
    /\ api.method = "GET"
    /\ api.net.exc = "Timeout"
    /\ api.result = None
    /\ session = LoggedInSession

====
